---- MODULE Spec2Model ----
(***************************************************************************)
(* Model of the MPG Ranch NFC detector (vesper/mpg_ranch/nfc_detector_0_0/ *)
(* detector.py): the streaming _Detector with its sample buffer, the       *)
(* chunking loop, the analysis records, peak finding per threshold and the *)
(* clip arithmetic, driven by detect and complete_detection calls.         *)
(*                                                                         *)
(* Durations (seconds) are exact rationals <<numerator, denominator>>;     *)
(* sample rates are integers (samples per second); indices are 0-based as  *)
(* in the Python code, sequences 1-based as in TLA+.                       *)
(***************************************************************************)
EXTENDS Integers, Sequences, FiniteSets

\* ------------------------------------------------------------------ bounds

\* Total number of samples passed to detect in one behaviour.
MaxSamples == 10
\* The same, in a behaviour with calls in any order.
MaxSamplesAnyOrder == 8
\* Number of complete_detection calls in a behaviour with calls in any order.
MaxCompleteCalls == 2

\* Sample values of the input signal.
SampleValues == {0, 1}

\* ------------------------------------------------------- rationals, rounding

Rat(n, d) == <<n, d>>
Num(q) == q[1]
Den(q) == q[2]

\* None for an optional setting (min_separation, extra_thresholds).
None == <<>>

RatLess(p, q) == Num(p) * Den(q) < Num(q) * Den(p)

\* Python 3 round(): to the nearest integer, halves to the even neighbour.
RoundHalfEven(n, d) ==
    LET fl == n \div d
        r == n - fl * d
    IN  IF 2 * r < d THEN fl
        ELSE IF 2 * r > d THEN fl + 1
        ELSE IF fl % 2 = 0 THEN fl ELSE fl + 1

\* signal_utils.seconds_to_frames(seconds, frame_rate)
seconds_to_frames(seconds, frame_rate) ==
    RoundHalfEven(Num(seconds) * frame_rate, Den(seconds))

\* signal_utils.get_duration(num_frames, frame_rate)
get_duration(num_frames, frame_rate) == Rat(num_frames, frame_rate)

\* ------------------------------------------------------------ configuration

(***************************************************************************)
(* A configuration is the arguments of _Detector.__init__ together with    *)
(* the classifier settings the constructor loads:                          *)
(*   input_sample_rate                      the input_sample_rate argument *)
(*   input_chunk_size, hop_size, threshold, min_separation,                *)
(*   initial_clip_padding, clip_duration    the fields of settings         *)
(*   extra_thresholds                       the extra_thresholds argument  *)
(*   waveform_sample_rate, waveform_duration  the classifier settings      *)
(* hop_size is a percentage of the waveform duration; thresholds and       *)
(* scores are integers on a common scale.                                  *)
(***************************************************************************)
Config(fs, chunk, hop, thr, sep, pad, clip, extra, cfs, wdur) ==
    [input_sample_rate |-> fs, input_chunk_size |-> chunk, hop_size |-> hop,
     threshold |-> thr, min_separation |-> sep, initial_clip_padding |-> pad,
     clip_duration |-> clip, extra_thresholds |-> extra,
     waveform_sample_rate |-> cfs, waveform_duration |-> wdur]

RECURSIVE SortedSeq(_)
\* Python sorted() of a set of numbers.
SortedSeq(S) ==
    IF S = {} THEN <<>>
    ELSE LET m == CHOOSE x \in S : \A y \in S : x <= y
         IN  <<m>> \o SortedSeq(S \ {m})

SeqRange(s) == {s[k] : k \in 1..Len(s)}

\* _Detector._get_thresholds
get_thresholds_unsorted(c) == <<c.threshold>> \o c.extra_thresholds
get_thresholds(c) ==
    LET base == {c.threshold}
        thresholds == IF c.extra_thresholds # None
                      THEN base \cup SeqRange(c.extra_thresholds)
                      ELSE base
    IN  SortedSeq(thresholds)

\* The attributes _Detector.__init__ derives from its arguments.
input_chunk_size(c) == seconds_to_frames(c.input_chunk_size, c.input_sample_rate)
clip_start_offset(c) == -seconds_to_frames(c.initial_clip_padding, c.input_sample_rate)
clip_length(c) == seconds_to_frames(c.clip_duration, c.input_sample_rate)
classifier_sample_rate(c) == c.waveform_sample_rate
classifier_waveform_length(c) ==
    seconds_to_frames(c.waveform_duration, c.waveform_sample_rate)
hop_size(c) ==
    seconds_to_frames(
        Rat(c.hop_size * Num(c.waveform_duration), 100 * Den(c.waveform_duration)),
        c.waveform_sample_rate)

\* ------------------------------------------------- records, scores and peaks

\* The number of records that do not overlap, less one.
get_num_analysis_records_less_record(num_samples, record_size, hop) ==
    IF record_size <= 0 \/ hop <= 0 \/ hop > record_size
    THEN [raised |-> "ValueError", value |-> 0]
    ELSE IF num_samples < record_size
    THEN [raised |-> "none", value |-> 0]
    ELSE [raised |-> "none", value |-> (num_samples - record_size) \div hop]

\* The records counted with a last one that the samples do not fill.
get_num_analysis_records_partial(num_samples, record_size, hop) ==
    IF record_size <= 0 \/ hop <= 0 \/ hop > record_size
    THEN [raised |-> "ValueError", value |-> 0]
    ELSE IF num_samples < record_size
    THEN [raised |-> "none", value |-> 0]
    ELSE [raised |-> "none",
          value |-> (num_samples - (record_size - hop) + hop - 1) \div hop]

\* _get_num_analysis_records: the number of records, or the ValueError raised.
get_num_analysis_records(num_samples, record_size, hop) ==
    IF record_size <= 0 \/ hop <= 0 \/ hop > record_size
    THEN [raised |-> "ValueError", value |-> 0]
    ELSE IF num_samples < record_size
    THEN [raised |-> "none", value |-> 0]
    ELSE [raised |-> "none",
          value |-> (num_samples - (record_size - hop)) \div hop]

\* What a strided view reads at a position past the end of the array:
\* memory that is not of the array, its content not determined. The value
\* stands for any content; no sample has it.
Beyond == -1

\* _get_analysis_records: record k is the strided view
\* samples[k * hop_size : k * hop_size + record_size], made by as_strided
\* from the number of records without a test of the positions it reads.
get_analysis_records(samples, record_size, hop) ==
    LET n == get_num_analysis_records(Len(samples), record_size, hop)
    IN  [raised |-> n.raised,
         value |-> [k \in 1..n.value |->
                      [j \in 1..record_size |->
                          IF (k - 1) * hop + j <= Len(samples)
                          THEN samples[(k - 1) * hop + j]
                          ELSE Beyond]]]

\* resampy.resample(samples, from_rate, to_rate): an output of
\* int(len * to_rate / from_rate) samples, output sample k taken at the input
\* position k * from_rate / to_rate.
resample(samples, from_rate, to_rate) ==
    [k \in 1..((Len(samples) * to_rate) \div from_rate) |->
        samples[((k - 1) * from_rate) \div to_rate + 1]]

RECURSIVE SeqSum(_)
SeqSum(s) == IF s = <<>> THEN 0 ELSE s[1] + SeqSum(Tail(s))

\* classifier_utils.score_dataset_examples: one score per waveform, a
\* deterministic function of the waveform alone.
score_dataset_examples(waveforms) ==
    [k \in 1..Len(waveforms) |-> SeqSum(waveforms[k])]

Abs(x) == IF x < 0 THEN -x ELSE x

\* Index i (0-based) is a local maximum of x at or above min_value.
IsLocalMax(x, i, min_value) ==
    /\ 1 <= i /\ i <= Len(x) - 2
    /\ x[i + 1] >= min_value
    /\ x[i + 1] >= x[i]
    /\ x[i + 1] >= x[i + 2]

\* The local maxima, the earlier index taken of two tied neighbours.
LocalMaxima(x, min_value) ==
    {i \in 0..(Len(x) - 1) :
        /\ IsLocalMax(x, i, min_value)
        /\ ~(IsLocalMax(x, i - 1, min_value) /\ x[i] = x[i + 1])}

RECURSIVE SuppressNearby(_, _, _, _)
\* Of candidates closer than min_separation the higher score is kept, the
\* earlier index on equal scores.
SuppressNearby(x, candidates, accepted, min_separation) ==
    IF candidates = {} THEN accepted
    ELSE LET best == CHOOSE i \in candidates : \A j \in candidates :
                         \/ x[i + 1] > x[j + 1]
                         \/ (x[i + 1] = x[j + 1] /\ i <= j)
             far == \A a \in accepted :
                         ~RatLess(Rat(Abs(best - a), 1), min_separation)
         IN  SuppressNearby(x, candidates \ {best},
                            IF far THEN accepted \cup {best} ELSE accepted,
                            min_separation)

\* signal_utils.find_peaks(x, min_value, min_separation): ascending indices.
find_peaks(x, min_value, min_separation) ==
    LET maxima == LocalMaxima(x, min_value)
    IN  SortedSeq(IF min_separation = None THEN maxima
                  ELSE SuppressNearby(x, maxima, {}, min_separation))

\* Every index at or above the threshold taken for a peak, local maximum
\* or not.
find_peaks_above_threshold(c, scores, threshold) ==
    SortedSeq({i \in 0..(Len(scores) - 1) : scores[i + 1] >= threshold})

\* Of two candidates closer than the minimum separation the earlier one kept,
\* whatever their scores.
find_peaks_earlier_kept(c, scores, threshold) ==
    LET candidates == SortedSeq(LocalMaxima(scores, threshold))
        min_separation == Rat(Num(c.min_separation) * classifier_sample_rate(c),
                              Den(c.min_separation) * hop_size(c))
        Kept[k \in 0..Len(candidates)] ==
            IF k = 0 THEN <<>>
            ELSE IF \/ c.min_separation = None
                    \/ Kept[k - 1] = <<>>
                    \/ ~RatLess(Rat(candidates[k]
                                    - Kept[k - 1][Len(Kept[k - 1])], 1),
                                min_separation)
            THEN Append(Kept[k - 1], candidates[k])
            ELSE Kept[k - 1]
    IN  Kept[Len(candidates)]

\* _Detector._find_peaks: the minimum separation in hops.
find_peaks_no_separation(c, scores, threshold) == find_peaks(scores, threshold, None)
Detector_find_peaks(c, scores, threshold) ==
    LET min_separation ==
            IF c.min_separation = None THEN None
            ELSE \* hop duration = hop_size / classifier_sample_rate
                 Rat(Num(c.min_separation) * classifier_sample_rate(c),
                     Den(c.min_separation) * hop_size(c))
    IN  find_peaks(scores, threshold, min_separation)

\* -------------------------------------------------------------- the listener

\* One entry of the record of what a chunk did: a listener call
\* (process_clip, complete_processing) or a logged rejection (warning).
\* peak is the window index of the peak, chunk_start and chunk_end the
\* absolute bounds of the chunk being processed.
Event(kind, start, length, threshold, peak, chunk_start, chunk_end) ==
    [kind |-> kind, start_index |-> start, length |-> length,
     threshold |-> threshold, peak |-> peak,
     chunk_start |-> chunk_start, chunk_end |-> chunk_end]

CompleteProcessingEvent(chunk_start) ==
    Event("complete_processing", 0, 0, 0, 0, chunk_start, chunk_start)

\* The clip of a peak without the tests on its start and end.
clip_of_peak_unchecked(c, chunk_start, peak, input_length, threshold) ==
    LET i == seconds_to_frames(
                 get_duration(peak * hop_size(c), classifier_sample_rate(c)),
                 c.input_sample_rate)
        clip_start_index == i + chunk_start + clip_start_offset(c)
    IN  Event("process_clip", clip_start_index, clip_length(c), threshold, peak,
              chunk_start, chunk_start + input_length)
\* The clip cut at the end of the chunk instead of rejected.
clip_of_peak_truncating(c, chunk_start, peak, input_length, threshold) ==
    LET e == clip_of_peak_unchecked(c, chunk_start, peak, input_length, threshold)
    IN  IF e.start_index < 0 THEN [e EXCEPT !.kind = "warning"]
        ELSE IF e.start_index + e.length > e.chunk_end
        THEN [e EXCEPT !.length = e.chunk_end - e.start_index]
        ELSE e

\* The hop converted to the input rate before it is multiplied by the peak
\* index, instead of the peak position converted.
clip_of_peak_hop_converted(c, chunk_start, peak, input_length, threshold) ==
    LET hop == seconds_to_frames(
                   get_duration(hop_size(c), classifier_sample_rate(c)),
                   c.input_sample_rate)
        clip_start_index == peak * hop + chunk_start + clip_start_offset(c)
        chunk_end_index == chunk_start + input_length
        kind == IF clip_start_index < 0 THEN "warning"
                ELSE IF clip_start_index + clip_length(c) > chunk_end_index
                THEN "warning"
                ELSE "process_clip"
    IN  Event(kind, clip_start_index, clip_length(c), threshold, peak,
              chunk_start, chunk_end_index)

\* A clip that ends one sample past the end of the chunk accepted.
clip_of_peak_one_past(c, chunk_start, peak, input_length, threshold) ==
    LET e == clip_of_peak_unchecked(c, chunk_start, peak, input_length, threshold)
    IN  IF e.start_index < 0 THEN [e EXCEPT !.kind = "warning"]
        ELSE IF e.start_index + e.length > e.chunk_end + 1
        THEN [e EXCEPT !.kind = "warning"]
        ELSE e

\* The body of the loop of _notify_listener_of_clips: the clip of one peak,
\* passed to process_clip or rejected with a warning.
clip_of_peak(c, chunk_start, peak, input_length, threshold) ==
    LET start_offset == chunk_start + clip_start_offset(c)
        scaled == peak * hop_size(c)
        t == get_duration(scaled, classifier_sample_rate(c))
        i == seconds_to_frames(t, c.input_sample_rate)
        clip_start_index == i + start_offset
        clip_end_index == clip_start_index + clip_length(c)
        chunk_end_index == chunk_start + input_length
        kind == IF clip_start_index < 0 THEN "warning"
                ELSE IF clip_end_index > chunk_end_index THEN "warning"
                ELSE "process_clip"
    IN  Event(kind, clip_start_index, clip_length(c), threshold, peak,
              chunk_start, chunk_end_index)

\* The loop left at the first rejected clip.
notify_listener_until_rejection(c, chunk_start, peak_indices, input_length, threshold) ==
    LET all == [k \in 1..Len(peak_indices) |->
                   clip_of_peak(c, chunk_start, peak_indices[k], input_length,
                                threshold)]
        rejected == {k \in 1..Len(all) : all[k].kind = "warning"}
    IN  IF rejected = {} THEN all
        ELSE SubSeq(all, 1, CHOOSE k \in rejected : \A j \in rejected : k <= j)

\* The loop run over the peaks from the last to the first.
notify_listener_last_first(c, chunk_start, peak_indices, input_length, threshold) ==
    [k \in 1..Len(peak_indices) |->
        clip_of_peak(c, chunk_start, peak_indices[Len(peak_indices) + 1 - k],
                     input_length, threshold)]

\* _Detector._notify_listener_of_clips: the peaks in the order given.
notify_listener_of_clips(c, chunk_start, peak_indices, input_length, threshold) ==
    [k \in 1..Len(peak_indices) |->
        clip_of_peak(c, chunk_start, peak_indices[k], input_length, threshold)]

\* The loop with the peaks found once, for the lowest threshold.
threshold_loop_shared_peaks(c, chunk_start, scores, input_length, thresholds) ==
    IF thresholds = <<>> THEN <<>>
    ELSE LET peak_indices == Detector_find_peaks(c, scores, Head(thresholds))
             per_threshold == [k \in 1..Len(thresholds) |->
                 notify_listener_of_clips(c, chunk_start, peak_indices,
                                          input_length, thresholds[k])]
             Flat[k \in 0..Len(thresholds)] ==
                 IF k = 0 THEN <<>> ELSE Flat[k - 1] \o per_threshold[k]
         IN  Flat[Len(thresholds)]

\* The loop with a clip start notified once only, for the lowest threshold
\* that has it.
threshold_loop_deduplicated(c, chunk_start, scores, input_length, thresholds) ==
    LET per_threshold == [k \in 1..Len(thresholds) |->
            notify_listener_of_clips(
                c, chunk_start, Detector_find_peaks(c, scores, thresholds[k]),
                input_length, thresholds[k])]
        Flat[k \in 0..Len(thresholds)] ==
            IF k = 0 THEN <<>>
            ELSE LET IsNew(e) == \A j \in 1..Len(Flat[k - 1]) :
                                     Flat[k - 1][j].start_index # e.start_index
                 IN  Flat[k - 1] \o SelectSeq(per_threshold[k], IsNew)
    IN  Flat[Len(thresholds)]

RECURSIVE threshold_loop(_, _, _, _, _)
\* The loop over self._thresholds of _process_input_chunk.
threshold_loop(c, chunk_start, scores, input_length, thresholds) ==
    IF thresholds = <<>> THEN <<>>
    ELSE LET peak_indices == Detector_find_peaks(c, scores, Head(thresholds))
         IN  notify_listener_of_clips(c, chunk_start, peak_indices,
                                      input_length, Head(thresholds))
             \o threshold_loop(c, chunk_start, scores, input_length,
                               Tail(thresholds))

\* The index advanced by the length of the chunk after resampling.
process_input_chunk_resampled_length(c, chunk_start, samples) ==
    LET resampled == IF classifier_sample_rate(c) # c.input_sample_rate
                     THEN resample(samples, c.input_sample_rate,
                                   classifier_sample_rate(c))
                     ELSE samples
        waveforms == get_analysis_records(
                         resampled, classifier_waveform_length(c), hop_size(c))
    IN  IF waveforms.raised # "none"
        THEN [raised |-> waveforms.raised, events |-> <<>>,
              chunk_start |-> chunk_start]
        ELSE [raised |-> "none",
              events |-> threshold_loop(
                             c, chunk_start,
                             score_dataset_examples(waveforms.value),
                             Len(samples), get_thresholds(c)),
              chunk_start |-> chunk_start + Len(resampled)]

\* The index advanced by the configured chunk size, whatever the length of
\* the chunk.
process_input_chunk_whole_advance(c, chunk_start, samples) ==
    LET resampled == IF classifier_sample_rate(c) # c.input_sample_rate
                     THEN resample(samples, c.input_sample_rate,
                                   classifier_sample_rate(c))
                     ELSE samples
        waveforms == get_analysis_records(
                         resampled, classifier_waveform_length(c), hop_size(c))
    IN  IF waveforms.raised # "none"
        THEN [raised |-> waveforms.raised, events |-> <<>>,
              chunk_start |-> chunk_start]
        ELSE [raised |-> "none",
              events |-> threshold_loop(
                             c, chunk_start,
                             score_dataset_examples(waveforms.value),
                             Len(samples), get_thresholds(c)),
              chunk_start |-> chunk_start + input_chunk_size(c)]

\* _Detector._process_input_chunk: the entries made for one chunk and the new
\* chunk start index; on an exception the index is left as it was.
process_input_chunk(c, chunk_start, samples) ==
    LET input_length == Len(samples)
        resampled == IF classifier_sample_rate(c) # c.input_sample_rate
                     THEN resample(samples, c.input_sample_rate,
                                   classifier_sample_rate(c))
                     ELSE samples
        waveforms == get_analysis_records(
                         resampled, classifier_waveform_length(c), hop_size(c))
    IN  IF waveforms.raised # "none"
        THEN [raised |-> waveforms.raised, events |-> <<>>,
              chunk_start |-> chunk_start]
        ELSE [raised |-> "none",
              events |-> threshold_loop(
                             c, chunk_start,
                             score_dataset_examples(waveforms.value),
                             input_length, get_thresholds(c)),
              chunk_start |-> chunk_start + input_length]

\* -------------------------------------------------------------- the buffer

\* SampleBuffer.write(samples): appended at the tail.
buffer_write(buffer, samples) == buffer \o samples

\* read(n) with the samples taken from the tail of the buffer.
buffer_read_newest(buffer, n) ==
    IF n > Len(buffer)
    THEN [raised |-> "InsufficientDataError", samples |-> <<>>,
          buffer |-> buffer]
    ELSE [raised |-> "none",
          samples |-> SubSeq(buffer, Len(buffer) - n + 1, Len(buffer)),
          buffer |-> SubSeq(buffer, 1, Len(buffer) - n)]

\* SampleBuffer.read(n): the first n samples, removed from the buffer; an
\* InsufficientDataError, and the buffer as it was, if it holds fewer.
buffer_read(buffer, n) ==
    IF n > Len(buffer)
    THEN [raised |-> "InsufficientDataError", samples |-> <<>>,
          buffer |-> buffer]
    ELSE [raised |-> "none",
          samples |-> SubSeq(buffer, 1, n),
          buffer |-> SubSeq(buffer, n + 1, Len(buffer))]

\* One processed chunk, as remembered for the claims.
Chunk(start, samples) == [start |-> start, samples |-> samples]

\* The loop taken as a single test: at most one whole chunk per call.
process_input_chunks_once(c, buffer, chunk_start, process_all_samples) ==
    LET first == IF Len(buffer) >= input_chunk_size(c)
                 THEN LET rd == buffer_read(buffer, input_chunk_size(c))
                          done == process_input_chunk(c, chunk_start, rd.samples)
                      IN  [raised |-> done.raised, buffer |-> rd.buffer,
                           chunk_start |-> done.chunk_start,
                           events |-> done.events,
                           chunks |-> <<Chunk(chunk_start, rd.samples)>>]
                 ELSE [raised |-> "none", buffer |-> buffer,
                       chunk_start |-> chunk_start, events |-> <<>>,
                       chunks |-> <<>>]
    IN  IF first.raised = "none" /\ process_all_samples /\ Len(first.buffer) # 0
        THEN LET done == process_input_chunk(c, first.chunk_start, first.buffer)
             IN  [raised |-> done.raised, buffer |-> <<>>,
                  chunk_start |-> done.chunk_start,
                  events |-> first.events \o done.events,
                  chunks |-> first.chunks
                             \o <<Chunk(first.chunk_start, first.buffer)>>]
        ELSE first

RECURSIVE process_input_chunks_strict(_, _, _, _)
\* The loop entered only with more than a chunk in the buffer.
process_input_chunks_strict(c, buffer, chunk_start, process_all_samples) ==
    IF Len(buffer) > input_chunk_size(c)
    THEN LET rd == buffer_read(buffer, input_chunk_size(c))
             done == process_input_chunk(c, chunk_start, rd.samples)
         IN  IF done.raised # "none"
             THEN [raised |-> done.raised, buffer |-> rd.buffer,
                   chunk_start |-> done.chunk_start, events |-> done.events,
                   chunks |-> <<Chunk(chunk_start, rd.samples)>>]
             ELSE LET rest == process_input_chunks_strict(
                                  c, rd.buffer, done.chunk_start,
                                  process_all_samples)
                  IN  [rest EXCEPT
                         !.events = done.events \o rest.events,
                         !.chunks = <<Chunk(chunk_start, rd.samples)>>
                                    \o rest.chunks]
    ELSE IF process_all_samples /\ Len(buffer) # 0
    THEN LET rd == buffer_read(buffer, Len(buffer))
             done == process_input_chunk(c, chunk_start, rd.samples)
         IN  [raised |-> done.raised, buffer |-> rd.buffer,
              chunk_start |-> done.chunk_start, events |-> done.events,
              chunks |-> <<Chunk(chunk_start, rd.samples)>>]
    ELSE [raised |-> "none", buffer |-> buffer, chunk_start |-> chunk_start,
          events |-> <<>>, chunks |-> <<>>]

RECURSIVE process_input_chunks_lagging(_, _, _, _)
\* The loop entered only with two chunks in the buffer: a whole chunk is
\* kept back until the next one has arrived.
process_input_chunks_lagging(c, buffer, chunk_start, process_all_samples) ==
    IF \/ Len(buffer) >= 2 * input_chunk_size(c)
       \/ process_all_samples /\ Len(buffer) >= input_chunk_size(c)
    THEN LET rd == buffer_read(buffer, input_chunk_size(c))
             done == process_input_chunk(c, chunk_start, rd.samples)
         IN  IF done.raised # "none"
             THEN [raised |-> done.raised, buffer |-> rd.buffer,
                   chunk_start |-> done.chunk_start, events |-> done.events,
                   chunks |-> <<Chunk(chunk_start, rd.samples)>>]
             ELSE LET rest == process_input_chunks_lagging(
                                  c, rd.buffer, done.chunk_start,
                                  process_all_samples)
                  IN  [rest EXCEPT
                         !.events = done.events \o rest.events,
                         !.chunks = <<Chunk(chunk_start, rd.samples)>>
                                    \o rest.chunks]
    ELSE IF process_all_samples /\ Len(buffer) # 0
    THEN LET rd == buffer_read(buffer, Len(buffer))
             done == process_input_chunk(c, chunk_start, rd.samples)
         IN  [raised |-> done.raised, buffer |-> rd.buffer,
              chunk_start |-> done.chunk_start, events |-> done.events,
              chunks |-> <<Chunk(chunk_start, rd.samples)>>]
    ELSE [raised |-> "none", buffer |-> buffer, chunk_start |-> chunk_start,
          events |-> <<>>, chunks |-> <<>>]

RECURSIVE process_input_chunks_eager(_, _, _, _)
\* The loop entered with any samples in the buffer, a whole chunk or not.
process_input_chunks_eager(c, buffer, chunk_start, process_all_samples) ==
    IF Len(buffer) > 0
    THEN LET rd == buffer_read(buffer, input_chunk_size(c))
             done == process_input_chunk(c, chunk_start, rd.samples)
         IN  IF rd.raised # "none"
             THEN [raised |-> rd.raised, buffer |-> rd.buffer,
                   chunk_start |-> chunk_start, events |-> <<>>,
                   chunks |-> <<>>]
             ELSE IF done.raised # "none"
             THEN [raised |-> done.raised, buffer |-> rd.buffer,
                   chunk_start |-> done.chunk_start, events |-> done.events,
                   chunks |-> <<Chunk(chunk_start, rd.samples)>>]
             ELSE LET rest == process_input_chunks_eager(
                                  c, rd.buffer, done.chunk_start,
                                  process_all_samples)
                  IN  [rest EXCEPT
                         !.events = done.events \o rest.events,
                         !.chunks = <<Chunk(chunk_start, rd.samples)>>
                                    \o rest.chunks]
    ELSE [raised |-> "none", buffer |-> buffer, chunk_start |-> chunk_start,
          events |-> <<>>, chunks |-> <<>>]

RECURSIVE process_input_chunks(_, _, _, _)
\* _Detector._process_input_chunks on a buffer that exists: whole chunks
\* while there are any, then, with process_all_samples, the remainder. An
\* exception of read leaves the loop and the method, as any other does.
process_input_chunks(c, buffer, chunk_start, process_all_samples) ==
    IF Len(buffer) >= input_chunk_size(c)
    THEN LET rd == buffer_read(buffer, input_chunk_size(c))
             done == process_input_chunk(c, chunk_start, rd.samples)
         IN  IF rd.raised # "none"
             THEN [raised |-> rd.raised, buffer |-> rd.buffer,
                   chunk_start |-> chunk_start, events |-> <<>>,
                   chunks |-> <<>>]
             ELSE IF done.raised # "none"
             THEN [raised |-> done.raised, buffer |-> rd.buffer,
                   chunk_start |-> done.chunk_start, events |-> done.events,
                   chunks |-> <<Chunk(chunk_start, rd.samples)>>]
             ELSE LET rest == process_input_chunks(
                                  c, rd.buffer, done.chunk_start,
                                  process_all_samples)
                  IN  [rest EXCEPT
                         !.events = done.events \o rest.events,
                         !.chunks = <<Chunk(chunk_start, rd.samples)>>
                                    \o rest.chunks]
    ELSE IF process_all_samples /\ Len(buffer) # 0
    THEN LET rd == buffer_read(buffer, Len(buffer))
             done == process_input_chunk(c, chunk_start, rd.samples)
         IN  IF rd.raised # "none"
             THEN [raised |-> rd.raised, buffer |-> rd.buffer,
                   chunk_start |-> chunk_start, events |-> <<>>,
                   chunks |-> <<>>]
             ELSE [raised |-> done.raised, buffer |-> rd.buffer,
                   chunk_start |-> done.chunk_start, events |-> done.events,
                   chunks |-> <<Chunk(chunk_start, rd.samples)>>]
    ELSE [raised |-> "none", buffer |-> buffer, chunk_start |-> chunk_start,
          events |-> <<>>, chunks |-> <<>>]

\* ---------------------------------------------------------- configurations

\* The threshold of the settings with the extra_thresholds argument.
Thresholds == {<<2, None>>, <<2, <<1>>>>, <<1, <<2, 1, 2>>>>}
\* min_separation: none, 2 hops, 3 hops, 5 hops.
Separations == {None, Rat(1, 1), Rat(3, 2), Rat(5, 2)}
\* initial_clip_padding with clip_duration.
Paddings == {<<Rat(1, 2), Rat(1, 1)>>, <<Rat(0, 1), Rat(1, 1)>>,
             <<Rat(1, 1), Rat(1, 2)>>}

\* A detector on chunks of 3 seconds, with a classifier at 2 samples per
\* second on waveforms of 1 second (2 samples) hopped by 50 percent (1 sample).
BaseConfig(fs, thr, extra, sep, pad, clip) ==
    Config(fs, Rat(3, 1), 50, thr, sep, pad, clip, extra, 2, Rat(1, 1))

\* A detector on chunks of 2 seconds (4 samples), with waveforms of a single
\* sample hopped by 100 percent: a chunk has peaks whose clips are rejected
\* at either end and clips that end with the chunk.
SmallConfigs ==
    {Config(2, Rat(2, 1), 100, 1, None, Rat(1, 1), Rat(5, 2), <<2>>, 2, Rat(1, 2))}

\* Well-formed configurations: the input at the classifier's rate with each
\* threshold set, separation and padding, an input at 1 and at 3 samples
\* per second, resampled to the classifier's 2, and the small chunks.
Configs ==
    {BaseConfig(2, t[1], t[2], Rat(1, 1), Rat(1, 2), Rat(1, 1)) : t \in Thresholds}
    \cup {BaseConfig(2, 2, <<1>>, sep, Rat(1, 2), Rat(1, 1)) : sep \in Separations}
    \cup {BaseConfig(2, 2, <<1>>, Rat(1, 1), p[1], p[2]) : p \in Paddings}
    \cup {BaseConfig(3, 2, <<1>>, Rat(1, 1), Rat(1, 2), Rat(1, 1))}
    \cup {BaseConfig(1, 2, <<1>>, None, Rat(1, 1), Rat(2, 1))}
    \cup SmallConfigs

\* Configurations the constructor accepts although the record size or the
\* hop size they give is not usable: a hop of 0 or of 150 percent, a waveform
\* duration of 0 or below.
MalformedConfigs ==
    {Config(2, Rat(3, 1), hop, 2, None, Rat(1, 2), Rat(1, 1), None, 2, wdur) :
        hop \in {0, 50, 150}, wdur \in {Rat(-1, 1), Rat(0, 1), Rat(1, 1)}}
    \ Configs

\* -------------------------------------------------------------------- state

VARIABLES
    cfg,              \* the configuration the detector was constructed with
    buffer_created,   \* self._input_buffer is not None
    input_buffer,     \* the samples in self._input_buffer
    input_chunk_start_index,   \* self._input_chunk_start_index
    log,              \* listener calls and rejections so far, in order
    chunks,           \* the chunks processed so far, in order
    written,          \* all samples passed to detect so far, in order
    n_complete,       \* complete_detection calls made so far
    last_call,        \* the last call made: its name and the exception raised
    late_detect,      \* a detect call was made after a complete_detection
    fragmented,       \* a detect call returned with samples left in the buffer
    scores,           \* the scores a Scorer of any kind returned for a chunk
    peer,             \* a second detector instance: its attributes and record
    call,             \* a function applied on its own: arguments and result
    recorder          \* an AudioRecorder: its attributes, threads and listener

vars == <<cfg, buffer_created, input_buffer, input_chunk_start_index, log,
          chunks, written, n_complete, last_call, late_detect, fragmented,
          scores, peer, call, recorder>>

\* What the behaviours of a single detector with the Scorer of
\* score_dataset_examples leave alone.
aside == <<scores, peer, call, recorder>>

Call(name, raised) == [name |-> name, raised |-> raised]

\* The attributes _Detector.__init__ leaves, and an empty record.
InitOwn(configs) ==
    /\ cfg \in configs
    /\ buffer_created = FALSE
    /\ input_buffer = <<>>
    /\ input_chunk_start_index = 0
    /\ log = <<>>
    /\ chunks = <<>>
    /\ written = <<>>
    /\ n_complete = 0
    /\ last_call = Call("init", "none")
    /\ late_detect = FALSE
    /\ fragmented = FALSE

\* The state _Detector.__init__ leaves.
InitWith(configs) ==
    /\ InitOwn(configs)
    /\ scores = <<>>
    /\ peer = None
    /\ call = None
    /\ recorder = None

Init == InitWith(Configs)

\* The sample arrays a detect call may pass, max_samples in all.
Fragments(max_samples) ==
    UNION {[1..n -> SampleValues] : n \in 0..(max_samples - Len(written))}

\* _Detector.detect(samples)
Detect(samples) ==
    LET done == process_input_chunks(
                    cfg, buffer_write(input_buffer, samples),
                    input_chunk_start_index, FALSE)
    IN  /\ buffer_created' = TRUE
        /\ input_buffer' = done.buffer
        /\ input_chunk_start_index' = done.chunk_start
        /\ log' = log \o done.events
        /\ chunks' = chunks \o done.chunks
        /\ written' = written \o samples
        /\ last_call' = Call("detect", done.raised)
        /\ late_detect' = (late_detect \/ n_complete > 0)
        /\ fragmented' = (fragmented \/ done.buffer # <<>>)
        /\ UNCHANGED <<cfg, n_complete, aside>>

\* complete_detection() with listener.complete_processing() called by the
\* first call only.
CompleteDetectionOnce ==
    /\ n_complete' = n_complete + 1
    /\ IF ~buffer_created
       THEN /\ last_call' = Call("complete_detection", "TypeError")
            /\ UNCHANGED <<input_buffer, input_chunk_start_index, log, chunks>>
       ELSE LET done == process_input_chunks(
                            cfg, input_buffer, input_chunk_start_index, TRUE)
            IN  /\ input_buffer' = done.buffer
                /\ input_chunk_start_index' = done.chunk_start
                /\ log' = log \o done.events \o
                       (IF done.raised = "none" /\ n_complete = 0
                        THEN <<CompleteProcessingEvent(done.chunk_start)>>
                        ELSE <<>>)
                /\ chunks' = chunks \o done.chunks
                /\ last_call' = Call("complete_detection", done.raised)
    /\ UNCHANGED <<cfg, buffer_created, written, late_detect, fragmented, aside>>

\* _Detector.complete_detection()
CompleteDetection ==
    /\ n_complete' = n_complete + 1
    /\ IF ~buffer_created
       THEN \* len(None) raises TypeError
            /\ last_call' = Call("complete_detection", "TypeError")
            /\ UNCHANGED <<input_buffer, input_chunk_start_index, log, chunks>>
       ELSE LET done == process_input_chunks(
                            cfg, input_buffer, input_chunk_start_index, TRUE)
            IN  /\ input_buffer' = done.buffer
                /\ input_chunk_start_index' = done.chunk_start
                /\ log' = log \o done.events \o
                       (IF done.raised = "none"
                        THEN <<CompleteProcessingEvent(done.chunk_start)>>
                        ELSE <<>>)
                /\ chunks' = chunks \o done.chunks
                /\ last_call' = Call("complete_detection", done.raised)
    /\ UNCHANGED <<cfg, buffer_created, written, late_detect, fragmented, aside>>

\* A session: detect calls followed by one complete_detection call.
Next ==
    \/ \E samples \in Fragments(MaxSamples) : n_complete = 0 /\ Detect(samples)
    \/ n_complete = 0 /\ CompleteDetection

Spec == Init /\ [][Next]_vars

\* Calls in any order: detect after complete_detection, and repeated
\* complete_detection calls, are not prevented by the code.
NextAnyOrder ==
    \/ \E samples \in Fragments(MaxSamplesAnyOrder) : Detect(samples)
    \/ n_complete < MaxCompleteCalls /\ CompleteDetection

\* A detector constructed with a configuration that is not well-formed.
SpecAnyConfig == InitWith(MalformedConfigs) /\ [][Next]_vars

\* Calls in any order on the detectors with small chunks.
SpecAnyOrder == InitWith(SmallConfigs) /\ [][NextAnyOrder]_vars

\* ------------------------------------------------ collaborators that raise

(***************************************************************************)
(* resampy.resample and classifier_utils.score_dataset_examples are        *)
(* collaborators that may raise. Whether and where they do is an input of  *)
(* the call: fail_at is the number, among the chunks the call processes,   *)
(* of the chunk for which the collaborator raises (0 for none), failure    *)
(* the exception. An exception is recorded where it was raised, after the  *)
(* listener calls made before it.                                          *)
(***************************************************************************)
CollaboratorFailures == {"ResamplerError", "ScorerError"}

RaisedEvent(chunk_start, chunk_end) ==
    Event("raised", 0, 0, 0, 0, chunk_start, chunk_end)

IsRaised(e) == e.kind = "raised"

\* The index advanced past the chunk for which a collaborator raised.
process_input_chunk_failing_advancing(c, chunk_start, samples, failure) ==
    IF \/ (/\ failure = "ResamplerError"
            /\ classifier_sample_rate(c) # c.input_sample_rate)
       \/ failure = "ScorerError"
    THEN [raised |-> failure,
          events |-> <<RaisedEvent(chunk_start, chunk_start + Len(samples))>>,
          chunk_start |-> chunk_start + Len(samples)]
    ELSE process_input_chunk(c, chunk_start, samples)

\* _process_input_chunk with a collaborator that raises for this chunk: the
\* Resampler, called when the rates differ, or the Scorer, both called
\* before the loop over the thresholds and the advance of the index.
process_input_chunk_failing(c, chunk_start, samples, failure) ==
    IF \/ (/\ failure = "ResamplerError"
            /\ classifier_sample_rate(c) # c.input_sample_rate)
       \/ failure = "ScorerError"
    THEN [raised |-> failure,
          events |-> <<RaisedEvent(chunk_start, chunk_start + Len(samples))>>,
          chunk_start |-> chunk_start]
    ELSE process_input_chunk(c, chunk_start, samples)

\* The chunk for which a collaborator raised left in the buffer, to be read
\* again by the next call.
process_input_chunks_keeping(c, buffer, chunk_start, process_all_samples, fail_at, failure) ==
    LET size == input_chunk_size(c)
        whole == Len(buffer) \div size
        before == IF fail_at = 0 THEN whole
                  ELSE IF fail_at - 1 < whole THEN fail_at - 1 ELSE whole
        done == process_input_chunks(
                    c, SubSeq(buffer, 1, before * size), chunk_start, FALSE)
        rest == SubSeq(buffer, before * size + 1, Len(buffer))
        n == IF Len(rest) >= size THEN size ELSE Len(rest)
        fails == /\ fail_at = before + 1
                 /\ n > 0
                 /\ (Len(rest) >= size \/ process_all_samples)
        failed == process_input_chunk_failing(
                      c, done.chunk_start, SubSeq(rest, 1, n), failure)
    IN  IF fails /\ failed.raised # "none"
        THEN [raised |-> failed.raised, buffer |-> rest,
              chunk_start |-> done.chunk_start,
              events |-> done.events \o failed.events,
              chunks |-> done.chunks
                         \o <<Chunk(done.chunk_start, SubSeq(rest, 1, n))>>]
        ELSE process_input_chunks(c, buffer, chunk_start, process_all_samples)

RECURSIVE process_input_chunks_failing(_, _, _, _, _, _)
\* _process_input_chunks with a collaborator that raises for the chunk
\* numbered fail_at: the exception leaves the loop and the method.
process_input_chunks_failing(c, buffer, chunk_start, process_all_samples, fail_at, failure) ==
    LET whole == Len(buffer) >= input_chunk_size(c)
        last == ~whole /\ process_all_samples /\ Len(buffer) # 0
    IN  IF whole \/ last
        THEN LET rd == buffer_read(buffer, IF whole THEN input_chunk_size(c)
                                           ELSE Len(buffer))
                 done == process_input_chunk_failing(
                             c, chunk_start, rd.samples,
                             IF fail_at = 1 THEN failure ELSE "none")
             IN  IF done.raised # "none" \/ last
                 THEN [raised |-> done.raised, buffer |-> rd.buffer,
                       chunk_start |-> done.chunk_start,
                       events |-> done.events,
                       chunks |-> <<Chunk(chunk_start, rd.samples)>>]
                 ELSE LET rest == process_input_chunks_failing(
                                      c, rd.buffer, done.chunk_start,
                                      process_all_samples,
                                      IF fail_at > 0 THEN fail_at - 1 ELSE 0,
                                      failure)
                      IN  [rest EXCEPT
                             !.events = done.events \o rest.events,
                             !.chunks = <<Chunk(chunk_start, rd.samples)>>
                                        \o rest.chunks]
        ELSE [raised |-> "none", buffer |-> buffer,
              chunk_start |-> chunk_start, events |-> <<>>, chunks |-> <<>>]

\* Total number of samples passed to detect, with collaborators that raise.
MaxSamplesFail == 7
\* The highest number of the chunk of a call for which a collaborator raises.
MaxFailAt == 3

\* Detectors with collaborators that raise: the small chunks at the
\* classifier's rate, and chunks of 3 samples at 1 sample per second,
\* resampled to the classifier's 2.
FailConfigs ==
    SmallConfigs \cup {BaseConfig(1, 2, <<1>>, None, Rat(1, 1), Rat(2, 1))}

\* _Detector.detect(samples), a collaborator raising in the call.
DetectFailing(samples, fail_at, failure) ==
    LET done == process_input_chunks_failing(
                    cfg, buffer_write(input_buffer, samples),
                    input_chunk_start_index, FALSE, fail_at, failure)
    IN  /\ done.raised \in CollaboratorFailures
        /\ buffer_created' = TRUE
        /\ input_buffer' = done.buffer
        /\ input_chunk_start_index' = done.chunk_start
        /\ log' = log \o done.events
        /\ chunks' = chunks \o done.chunks
        /\ written' = written \o samples
        /\ last_call' = Call("detect", done.raised)
        /\ late_detect' = (late_detect \/ n_complete > 0)
        /\ fragmented' = (fragmented \/ done.buffer # <<>>)
        /\ UNCHANGED <<cfg, n_complete, aside>>

\* _Detector.complete_detection(), a collaborator raising in the call: the
\* exception leaves the method before listener.complete_processing().
CompleteDetectionFailing(fail_at, failure) ==
    LET done == process_input_chunks_failing(
                    cfg, input_buffer, input_chunk_start_index, TRUE,
                    fail_at, failure)
    IN  /\ buffer_created
        /\ done.raised \in CollaboratorFailures
        /\ n_complete' = n_complete + 1
        /\ input_buffer' = done.buffer
        /\ input_chunk_start_index' = done.chunk_start
        /\ log' = log \o done.events
        /\ chunks' = chunks \o done.chunks
        /\ last_call' = Call("complete_detection", done.raised)
        /\ UNCHANGED <<cfg, buffer_created, written, late_detect, fragmented,
                       aside>>

\* A session in which any call may fail in a collaborator and the caller
\* goes on calling.
NextFail ==
    \/ \E samples \in Fragments(MaxSamplesFail) : n_complete = 0 /\ Detect(samples)
    \/ n_complete = 0 /\ CompleteDetection
    \/ \E samples \in Fragments(MaxSamplesFail) :
           \E fail_at \in 1..MaxFailAt, failure \in CollaboratorFailures :
               n_complete = 0 /\ DetectFailing(samples, fail_at, failure)
    \/ \E fail_at \in 1..MaxFailAt, failure \in CollaboratorFailures :
           n_complete = 0 /\ CompleteDetectionFailing(fail_at, failure)

SpecFail == InitWith(FailConfigs) /\ [][NextFail]_vars

\* ------------------------------------------------------ two detector instances

(***************************************************************************)
(* Every attribute _Detector.__init__, detect and _process_input_chunk     *)
(* assign is an attribute of self. A second instance is a record of its    *)
(* own attributes, with the listener calls made to its own listener and    *)
(* the samples passed to it.                                               *)
(***************************************************************************)
Instance(c) ==
    [cfg |-> c, buffer_created |-> FALSE, input_buffer |-> <<>>,
     input_chunk_start_index |-> 0, log |-> <<>>, written |-> <<>>,
     n_complete |-> 0]

\* self.detect(samples)
instance_detect(self, samples) ==
    LET done == process_input_chunks(
                    self.cfg, buffer_write(self.input_buffer, samples),
                    self.input_chunk_start_index, FALSE)
    IN  [self EXCEPT !.buffer_created = TRUE,
                     !.input_buffer = done.buffer,
                     !.input_chunk_start_index = done.chunk_start,
                     !.log = self.log \o done.events,
                     !.written = self.written \o samples]

\* self.complete_detection()
instance_complete_detection(self) ==
    IF ~self.buffer_created
    THEN [self EXCEPT !.n_complete = self.n_complete + 1]
    ELSE LET done == process_input_chunks(
                         self.cfg, self.input_buffer,
                         self.input_chunk_start_index, TRUE)
         IN  [self EXCEPT
                !.n_complete = self.n_complete + 1,
                !.input_buffer = done.buffer,
                !.input_chunk_start_index = done.chunk_start,
                !.log = self.log \o done.events \o
                        (IF done.raised = "none"
                         THEN <<CompleteProcessingEvent(done.chunk_start)>>
                         ELSE <<>>)]

\* Number of samples passed to each of two detectors.
MaxSamplesTwo == 4

\* Detectors on chunks of 3 samples with waveforms of a single sample, the
\* clip of 1 sample starting at the peak or one sample before it.
TwoConfigs ==
    {Config(2, Rat(3, 2), 100, 1, None, pad, Rat(1, 2), None, 2, Rat(1, 2)) :
        pad \in {Rat(0, 1), Rat(1, 2)}}

InitTwo ==
    /\ InitOwn(TwoConfigs)
    /\ scores = <<>>
    /\ peer \in {Instance(c) : c \in TwoConfigs}
    /\ call = None
    /\ recorder = None

\* The detector's own attributes and record.
own == <<cfg, buffer_created, input_buffer, input_chunk_start_index, log,
         chunks, written, n_complete, last_call, late_detect, fragmented>>

\* The second instance's detect, with the buffer an attribute of the class:
\* the samples go to the buffer the first instance uses.
PeerDetectSharedBuffer(samples) ==
    /\ peer' = [peer EXCEPT !.buffer_created = TRUE,
                            !.written = peer.written \o samples]
    /\ input_buffer' = buffer_write(input_buffer, samples)
    /\ UNCHANGED <<cfg, buffer_created, input_chunk_start_index, log, chunks,
                   written, n_complete, last_call, late_detect, fragmented,
                   scores, call, recorder>>

\* detect(samples) called on the second instance.
PeerDetect(samples) ==
    /\ peer' = instance_detect(peer, samples)
    /\ UNCHANGED <<own, scores, call, recorder>>

\* complete_detection() called on the second instance.
PeerCompleteDetection ==
    /\ peer' = instance_complete_detection(peer)
    /\ UNCHANGED <<own, scores, call, recorder>>

\* The sessions of two detectors, their calls interleaved in any order.
NextTwo ==
    \/ \E samples \in Fragments(MaxSamplesTwo) : n_complete = 0 /\ Detect(samples)
    \/ n_complete = 0 /\ CompleteDetection
    \/ \E samples \in UNION {[1..n -> SampleValues] :
                               n \in 0..(MaxSamplesTwo - Len(peer.written))} :
           peer.n_complete = 0 /\ PeerDetect(samples)
    \/ peer.n_complete = 0 /\ PeerCompleteDetection

SpecTwo == InitTwo /\ [][NextTwo]_vars

\* -------------------------------------------- the analysis records alone

\* The most samples passed to _get_analysis_records, and the largest record.
MaxRecordSamples == 12
MaxRecordSize == 4

\* A call of _get_analysis_records(samples, record_size, hop_size) not yet
\* made: sample k of the n samples has the value k, the hop size is from 0
\* to one more than the record size.
RecordCalls ==
    {[samples |-> [k \in 1..n |-> k], record_size |-> r, hop_size |-> h,
      returned |-> FALSE, raised |-> "none", records |-> <<>>] :
        n \in 0..MaxRecordSamples, r \in 1..MaxRecordSize,
        h \in 0..(MaxRecordSize + 1)}

InitRecords ==
    /\ InitOwn(SmallConfigs)
    /\ scores = <<>>
    /\ peer = None
    /\ call \in RecordCalls
    /\ recorder = None

\* _get_analysis_records(samples, record_size, hop_size) called.
GetAnalysisRecords ==
    LET r == get_analysis_records(call.samples, call.record_size, call.hop_size)
    IN  /\ ~call.returned
        /\ call' = [call EXCEPT !.returned = TRUE, !.raised = r.raised,
                                !.records = r.value]
        /\ UNCHANGED <<own, scores, peer, recorder>>

SpecRecords == InitRecords /\ [][GetAnalysisRecords]_vars

\* ------------------------------------- a chunk scored by a Scorer of any kind

(***************************************************************************)
(* The Scorer is a collaborator: _process_input_chunk takes whatever       *)
(* scores it returns, one per waveform. Here the chunks are known by their *)
(* length alone and the scores are any sequence of ScoreValues.            *)
(***************************************************************************)
ScoreValues == 0..3

\* Waveforms of 10 samples hopped by 5 at a classifier rate of 10, chunks
\* of 3.5 seconds, thresholds 2 and 3: the input at the classifier's rate
\* with no minimum separation, with one of 0 and with one of 1 second
\* (2 hops), and an input at 3 samples per second.
ScoreConfigs ==
    {Config(10, Rat(7, 2), 50, 2, None, Rat(1, 2), Rat(1, 1), <<3>>, 10, Rat(1, 1)),
     Config(10, Rat(7, 2), 50, 2, Rat(0, 1), Rat(1, 2), Rat(1, 1), None, 10, Rat(1, 1)),
     Config(10, Rat(7, 2), 50, 2, Rat(1, 1), Rat(1, 2), Rat(1, 1), <<3>>, 10, Rat(1, 1)),
     Config(3, Rat(11, 3), 50, 2, None, Rat(1, 2), Rat(1, 1), <<3>>, 10, Rat(1, 1))}

\* The number of waveforms, and so of scores, of a chunk of input_length
\* samples.
num_waveforms(c, input_length) ==
    LET n == IF classifier_sample_rate(c) # c.input_sample_rate
             THEN (input_length * classifier_sample_rate(c)) \div c.input_sample_rate
             ELSE input_length
    IN  get_num_analysis_records(
            n, classifier_waveform_length(c), hop_size(c)).value

\* The lengths of the chunks scored: a whole chunk, and three quarters of
\* one as the remainder complete_detection processes.
ScoredLengths(c) == {input_chunk_size(c), (3 * input_chunk_size(c)) \div 4}

AllZero(s) == \A k \in 1..Len(s) : s[k] = 0

\* A chunk follows only a whole chunk in which every score was 0.
MayScoreChunk ==
    /\ input_chunk_start_index \in {0, input_chunk_size(cfg)}
    /\ input_chunk_start_index # 0 => AllZero(scores)

\* _process_input_chunk from the return of the Scorer on: the loop over the
\* thresholds and the advance of the chunk start index.
ProcessScoredChunk(input_length, s) ==
    /\ scores' = s
    /\ log' = log \o threshold_loop(cfg, input_chunk_start_index, s,
                                    input_length, get_thresholds(cfg))
    /\ input_chunk_start_index' = input_chunk_start_index + input_length
    /\ last_call' = Call("process_input_chunk", "none")
    /\ UNCHANGED <<cfg, buffer_created, input_buffer, chunks, written,
                   n_complete, late_detect, fragmented, peer, call, recorder>>

NextScores ==
    /\ MayScoreChunk
    /\ \E input_length \in ScoredLengths(cfg) :
           \E s \in [1..num_waveforms(cfg, input_length) -> ScoreValues] :
               ProcessScoredChunk(input_length, s)

SpecScores == InitWith(ScoreConfigs) /\ [][NextScores]_vars

\* ------------------------------------------------------ the peaks alone

\* The most scores passed to _find_peaks.
MaxScores == 7

\* Hops of half a second; no minimum separation, and one of 1.5 seconds
\* (3 hops).
PeakConfigs ==
    {Config(10, Rat(7, 2), 50, 1, sep, Rat(1, 2), Rat(1, 1), <<3>>, 10, Rat(1, 1)) :
        sep \in {None, Rat(3, 2)}}

\* A call of _find_peaks(scores, threshold) not yet made: any scores, none
\* at all included, and either threshold.
PeakCalls ==
    {[scores |-> s, threshold |-> t, returned |-> FALSE, peaks |-> <<>>] :
        s \in UNION {[1..n -> ScoreValues] : n \in 0..MaxScores}, t \in {1, 3}}

InitPeaks ==
    /\ InitOwn(PeakConfigs)
    /\ scores = <<>>
    /\ peer = None
    /\ call \in PeakCalls
    /\ recorder = None

\* self._find_peaks(scores, threshold) called.
FindPeaks ==
    /\ ~call.returned
    /\ call' = [call EXCEPT
                   !.returned = TRUE,
                   !.peaks = Detector_find_peaks(cfg, call.scores, call.threshold)]
    /\ UNCHANGED <<own, scores, peer, recorder>>

SpecPeaks == InitPeaks /\ [][FindPeaks]_vars

\* ---------------------------------------------------- the buffer alone

\* The most samples written to a SampleBuffer, and the most asked of it in
\* one read.
MaxBufferSamples == 5
MaxReadSize == 3

\* The SampleBuffer detect creates, empty, with nothing written or read:
\* chunks is the record of what its reads returned.
InitBuffer ==
    /\ cfg \in SmallConfigs
    /\ buffer_created = TRUE
    /\ input_buffer = <<>>
    /\ input_chunk_start_index = 0
    /\ log = <<>>
    /\ chunks = <<>>
    /\ written = <<>>
    /\ n_complete = 0
    /\ last_call = Call("init", "none")
    /\ late_detect = FALSE
    /\ fragmented = FALSE
    /\ scores = <<>>
    /\ peer = None
    /\ call = None
    /\ recorder = None

\* self._input_buffer.write(samples)
BufferWrite(samples) ==
    /\ input_buffer' = buffer_write(input_buffer, samples)
    /\ written' = written \o samples
    /\ last_call' = Call("write", "none")
    /\ call' = [n |-> Len(samples), len |-> Len(input_buffer)]
    /\ UNCHANGED <<cfg, buffer_created, input_chunk_start_index, log, chunks,
                   n_complete, late_detect, fragmented, scores, peer,
                   recorder>>

\* self._input_buffer.read(n), with len(self._input_buffer) before it.
BufferRead(n) ==
    LET rd == buffer_read(input_buffer, n)
    IN  /\ input_buffer' = rd.buffer
        /\ chunks' = IF rd.raised = "none"
                      THEN Append(chunks, Chunk(input_chunk_start_index,
                                                rd.samples))
                      ELSE chunks
        /\ input_chunk_start_index' =
               input_chunk_start_index + Len(rd.samples)
        /\ last_call' = Call("read", rd.raised)
        /\ call' = [n |-> n, len |-> Len(input_buffer)]
        /\ UNCHANGED <<cfg, buffer_created, log, written, n_complete,
                       late_detect, fragmented, scores, peer, recorder>>

\* Writes and reads in any order.
NextBuffer ==
    \/ \E samples \in Fragments(MaxBufferSamples) : BufferWrite(samples)
    \/ \E n \in 1..MaxReadSize : BufferRead(n)

SpecBuffer == InitBuffer /\ [][NextBuffer]_vars

\* ------------------------------------------------------ the audio recorder

(***************************************************************************)
(* AudioRecorder (vesper/util/audio_recorder.py). Three threads run its    *)
(* methods: "user" calls start() and stop(), "audio" is the thread of the  *)
(* stream, which calls _callback while the stream is open, and "runner" is *)
(* the thread of the ScheduleRunner, which calls the methods of the        *)
(* _ScheduleListener one at a time. start, stop and _callback hold         *)
(* self._lock; the _ScheduleListener calls _start and _stop without it.    *)
(* Each thread is at a position (pc) in the method it runs; a statement of *)
(* _start, _stop or _callback is one step.                                 *)
(***************************************************************************)

\* The number of calls (start, stop, _callback, listener calls) begun.
MaxRecorderCalls == 5

Threads == {"user", "audio", "runner"}

\* The state AudioRecorder.__init__ leaves: schedule tells whether a
\* schedule was given.
Recorder(schedule) ==
    [schedule |-> schedule, recording |-> FALSE, lock |-> "none",
     stream |-> "none", runner_started |-> FALSE, notifications |-> <<>>,
     calls |-> 0, pc |-> [t \in Threads |-> "idle"]]

InitRecorder ==
    /\ InitOwn(SmallConfigs)
    /\ scores = <<>>
    /\ peer = None
    /\ call = None
    /\ recorder \in {Recorder(schedule) : schedule \in BOOLEAN}

\* Thread t returns from _start or _stop, and from start or stop if it is
\* in one: the lock it holds is released.
Return(r, t) ==
    [r EXCEPT !.pc[t] = "idle",
              !.lock = IF r.lock = t THEN "none" ELSE r.lock]

\* self._notify_listeners(method_name)
notify_listeners(r, method_name) ==
    [r EXCEPT !.notifications = Append(r.notifications, method_name)]

\* AudioRecorder.start(): with the lock, the schedule runner started, or
\* _start entered.
RecorderStart ==
    /\ recorder.pc["user"] = "idle"
    /\ recorder.calls < MaxRecorderCalls
    /\ recorder.lock = "none"
    /\ recorder' =
           IF recorder.schedule
           THEN [recorder EXCEPT !.runner_started = TRUE,
                                 !.calls = recorder.calls + 1]
           ELSE [recorder EXCEPT !.lock = "user",
                                 !.pc["user"] = "start_test",
                                 !.calls = recorder.calls + 1]
    /\ UNCHANGED <<own, scores, peer, call>>

\* AudioRecorder.stop(): with the lock, the schedule runner told to stop,
\* or _stop entered.
RecorderStop ==
    /\ recorder.pc["user"] = "idle"
    /\ recorder.calls < MaxRecorderCalls
    /\ recorder.lock = "none"
    /\ recorder' =
           IF recorder.schedule
           THEN [recorder EXCEPT !.calls = recorder.calls + 1]
           ELSE [recorder EXCEPT !.lock = "user",
                                 !.pc["user"] = "stop_test",
                                 !.calls = recorder.calls + 1]
    /\ UNCHANGED <<own, scores, peer, call>>

\* A method of the _ScheduleListener called by the schedule runner, with
\* the state of the schedule: _start or _stop entered, without the lock.
ScheduleListenerCall(method, state) ==
    /\ recorder.schedule /\ recorder.runner_started
    /\ recorder.pc["runner"] = "idle"
    /\ recorder.calls < MaxRecorderCalls
    /\ recorder' =
           [recorder EXCEPT
              !.calls = recorder.calls + 1,
              !.pc["runner"] =
                  IF method = "schedule_run_started"
                  THEN IF state THEN "start_test" ELSE "idle"
                  ELSE IF method = "schedule_state_changed"
                  THEN IF state THEN "start_test" ELSE "stop_test"
                  ELSE "stop_test"]
    /\ UNCHANGED <<own, scores, peer, call>>

ScheduleListenerMethods ==
    {"schedule_run_started", "schedule_state_changed",
     "schedule_run_stopped", "schedule_run_completed"}

\* _start: if not self._recording
StartTest(t) ==
    /\ recorder.pc[t] = "start_test"
    /\ recorder' = IF ~recorder.recording
                    THEN [recorder EXCEPT !.pc[t] = "start_notify"]
                    ELSE Return(recorder, t)
    /\ UNCHANGED <<own, scores, peer, call>>

\* _start: self._notify_listeners('recording_starting')
StartNotify(t) ==
    /\ recorder.pc[t] = "start_notify"
    /\ recorder' = [notify_listeners(recorder, "recording_starting")
                       EXCEPT !.pc[t] = "start_set"]
    /\ UNCHANGED <<own, scores, peer, call>>

\* _start: self._recording = True
StartSet(t) ==
    /\ recorder.pc[t] = "start_set"
    /\ recorder' = [recorder EXCEPT !.recording = TRUE,
                                     !.pc[t] = "start_open"]
    /\ UNCHANGED <<own, scores, peer, call>>

\* _start: the stream opened with self._callback as its callback.
StartOpen(t) ==
    /\ recorder.pc[t] = "start_open"
    /\ recorder' = Return([recorder EXCEPT !.stream = "open"], t)
    /\ UNCHANGED <<own, scores, peer, call>>

\* _stop: if self._recording
StopTest(t) ==
    /\ recorder.pc[t] = "stop_test"
    /\ recorder' = IF recorder.recording
                    THEN [recorder EXCEPT !.pc[t] = "stop_clear"]
                    ELSE Return(recorder, t)
    /\ UNCHANGED <<own, scores, peer, call>>

\* _stop: self._recording = False
StopClear(t) ==
    /\ recorder.pc[t] = "stop_clear"
    /\ recorder' = [recorder EXCEPT !.recording = FALSE,
                                     !.pc[t] = "stop_stream"]
    /\ UNCHANGED <<own, scores, peer, call>>

\* _stop: the stream stopped and closed: it begins no further callback.
StopStream(t) ==
    /\ recorder.pc[t] = "stop_stream"
    /\ recorder' = [recorder EXCEPT !.stream = "closed",
                                     !.pc[t] = "stop_notify"]
    /\ UNCHANGED <<own, scores, peer, call>>

\* _stop: self._notify_listeners('recording_stopped')
StopNotify(t) ==
    /\ recorder.pc[t] = "stop_notify"
    /\ recorder' = Return(notify_listeners(recorder, "recording_stopped"), t)
    /\ UNCHANGED <<own, scores, peer, call>>

\* The open stream calls self._callback on its thread.
CallbackBegin ==
    /\ recorder.stream = "open"
    /\ recorder.pc["audio"] = "idle"
    /\ recorder.calls < MaxRecorderCalls
    /\ recorder' = [recorder EXCEPT !.pc["audio"] = "callback_lock",
                                     !.calls = recorder.calls + 1]
    /\ UNCHANGED <<own, scores, peer, call>>

\* _callback: with self._lock
CallbackLock ==
    /\ recorder.pc["audio"] = "callback_lock"
    /\ recorder.lock = "none"
    /\ recorder' = [recorder EXCEPT !.lock = "audio",
                                     !.pc["audio"] = "callback_test"]
    /\ UNCHANGED <<own, scores, peer, call>>

\* _callback: if self._recording; otherwise paComplete is returned.
CallbackTest ==
    /\ recorder.pc["audio"] = "callback_test"
    /\ recorder' = IF recorder.recording
                    THEN [recorder EXCEPT !.pc["audio"] = "callback_notify"]
                    ELSE Return(recorder, "audio")
    /\ UNCHANGED <<own, scores, peer, call>>

\* _callback: self._notify_listeners('samples_arrived', ...), and
\* paContinue returned.
CallbackNotify ==
    /\ recorder.pc["audio"] = "callback_notify"
    /\ recorder' = Return(notify_listeners(recorder, "samples_arrived"), "audio")
    /\ UNCHANGED <<own, scores, peer, call>>

NextRecorder ==
    \/ RecorderStart
    \/ RecorderStop
    \/ \E method \in ScheduleListenerMethods, state \in BOOLEAN :
           ScheduleListenerCall(method, state)
    \/ \E t \in {"user", "runner"} : StartTest(t)
    \/ \E t \in {"user", "runner"} : StartNotify(t)
    \/ \E t \in {"user", "runner"} : StartSet(t)
    \/ \E t \in {"user", "runner"} : StartOpen(t)
    \/ \E t \in {"user", "runner"} : StopTest(t)
    \/ \E t \in {"user", "runner"} : StopClear(t)
    \/ \E t \in {"user", "runner"} : StopStream(t)
    \/ \E t \in {"user", "runner"} : StopNotify(t)
    \/ CallbackBegin
    \/ CallbackLock
    \/ CallbackTest
    \/ CallbackNotify

SpecRecorder == InitRecorder /\ [][NextRecorder]_vars

\* ------------------------------------------------------------------ claims

IsClip(e) == e.kind = "process_clip"
IsWarning(e) == e.kind = "warning"
IsCompleteProcessing(e) == e.kind = "complete_processing"

\* The process_clip calls made so far, in order.
Clips == SelectSeq(log, IsClip)

\* The (start_index, length, threshold) of a process_clip call.
ClipArgs(e) == <<e.start_index, e.length, e.threshold>>

\* The number of entries of s with the arguments a.
Count(s, a) == Cardinality({k \in 1..Len(s) : ClipArgs(s[k]) = a})

\* s and t hold the same clips the same number of times.
SameClipMultiset(s, t) ==
    \A a \in {ClipArgs(s[k]) : k \in 1..Len(s)}
           \cup {ClipArgs(t[k]) : k \in 1..Len(t)} :
        Count(s, a) = Count(t, a)

\* A session has ended: detect calls, then one complete_detection call.
SessionEnded == n_complete = 1 /\ ~late_detect

\* The session on the same samples passed in a single detect call.
SingleCallSession(c, samples) ==
    LET d == process_input_chunks(c, buffer_write(<<>>, samples), 0, FALSE)
        e == process_input_chunks(c, d.buffer, d.chunk_start, TRUE)
    IN  [chunks |-> d.chunks \o e.chunks, events |-> d.events \o e.events]

\* C1: fragmentation invariance. When a session has ended, the chunks
\* processed and the multiset of clips emitted are those of the session that
\* passes the same samples in one detect call, however the samples were
\* split over the detect calls.
C1_FragmentationInvariance ==
    SessionEnded =>
        LET one == SingleCallSession(cfg, written)
        IN  /\ chunks = one.chunks
            /\ SameClipMultiset(Clips, SelectSeq(one.events, IsClip))

\* A session that ended after calls that split the input inside a chunk,
\* with several chunks processed and clips emitted.
C1_Witness ==
    /\ SessionEnded /\ fragmented
    /\ Len(chunks) >= 3
    /\ Len(Clips) >= 2

\* C2: every clip passed to process_clip lies inside the samples received:
\* its start is not negative, its end is not past the end of the chunk being
\* processed, and that chunk ends within the samples passed to detect so
\* far. As the entry is made in the step that passes the samples, the state
\* after that step is the one that decides it.
C2_ClipInsideReceived ==
    \A k \in 1..Len(log) :
        IsClip(log[k]) =>
            /\ log[k].start_index >= 0
            /\ log[k].start_index + log[k].length <= log[k].chunk_end
            /\ log[k].chunk_end <= Len(written)

\* A clip that ends exactly at the end of its chunk, beside rejections at
\* both ends, in a behaviour with a detect call after complete_detection.
C2_Witness ==
    /\ late_detect
    /\ \E k \in 1..Len(log) :
           IsClip(log[k]) /\ log[k].start_index + log[k].length = log[k].chunk_end
    /\ \E k \in 1..Len(log) : IsWarning(log[k]) /\ log[k].start_index < 0
    /\ \E k \in 1..Len(log) :
           IsWarning(log[k]) /\ log[k].start_index + log[k].length > log[k].chunk_end

\* C3: a detect call made after complete_detection is rejected with an
\* InvalidStateError and writes nothing, processes no chunk, emits no clip.
\* (A step that leaves n_complete as it is is a detect call.)
C3_LateDetectRejected ==
    [][(n_complete > 0 /\ n_complete' = n_complete) =>
           /\ last_call'.raised = "InvalidStateError"
           /\ input_buffer' = input_buffer
           /\ chunks' = chunks
           /\ log' = log]_vars

\* The number of complete_processing calls made so far.
NumCompleteProcessing ==
    Cardinality({k \in 1..Len(log) : IsCompleteProcessing(log[k])})

\* C4: a session that passes fewer than record_length samples in all (none
\* at all included) makes no process_clip call and exactly one
\* complete_processing call.
C4_ShortInput ==
    (SessionEnded /\ Len(written) < classifier_waveform_length(cfg)) =>
        /\ Clips = <<>>
        /\ NumCompleteProcessing = 1

RECURSIVE ChunkSamples(_)
\* The samples of the chunks, concatenated.
ChunkSamples(cs) ==
    IF cs = <<>> THEN <<>> ELSE Head(cs).samples \o ChunkSamples(Tail(cs))

\* C5: when the session has ended, the remainder has been processed (the
\* chunks make up all samples written), complete_processing has been
\* called exactly once, and it is the last listener call.
C5_CompleteProcessingOnceAndLast ==
    SessionEnded =>
        /\ ChunkSamples(chunks) = written
        /\ NumCompleteProcessing = 1
        /\ IsCompleteProcessing(log[Len(log)])

\* min_separation in samples at the input rate.
MinSeparationSamples == seconds_to_frames(cfg.min_separation, cfg.input_sample_rate)

\* C6, as claimed: any two clips emitted for one threshold in a session,
\* from the same chunk or not, start at least min_separation apart.
C6_SeparationOfAllClips ==
    cfg.min_separation # None =>
        \A i, j \in 1..Len(Clips) :
            (i < j /\ Clips[i].threshold = Clips[j].threshold) =>
                Abs(Clips[j].start_index - Clips[i].start_index)
                    >= MinSeparationSamples

\* C6, amended: any two clips emitted for one threshold from the same chunk
\* start at least min_separation apart when the input is at the classifier's
\* rate, and at most one sample closer than that when it is resampled.
C6_SeparationWithinChunk ==
    cfg.min_separation # None =>
        \A i, j \in 1..Len(Clips) :
            (/\ i < j
             /\ Clips[i].threshold = Clips[j].threshold
             /\ Clips[i].chunk_start = Clips[j].chunk_start) =>
                Abs(Clips[j].start_index - Clips[i].start_index)
                    >= MinSeparationSamples
                       - (IF cfg.input_sample_rate = classifier_sample_rate(cfg)
                          THEN 0 ELSE 1)

\* Two clips of one threshold and one chunk exactly min_separation apart.
C6_Witness ==
    /\ cfg.min_separation # None
    /\ \E i, j \in 1..Len(Clips) :
           /\ i < j
           /\ Clips[i].threshold = Clips[j].threshold
           /\ Clips[i].chunk_start = Clips[j].chunk_start
           /\ Clips[j].start_index - Clips[i].start_index = MinSeparationSamples

C8_NoRuntimeConfigurationError == last_call.raised # "ValueError"

\* C9: the thresholds are the base and the extra thresholds without
\* repetition in ascending order; clips are emitted chunk by chunk, within
\* a chunk by ascending threshold, within a threshold by ascending peak.
C9_EmissionOrder ==
    LET th == get_thresholds(cfg)
    IN  /\ SeqRange(th) = {cfg.threshold} \cup SeqRange(cfg.extra_thresholds)
        /\ \A k \in 1..(Len(th) - 1) : th[k] < th[k + 1]
        /\ \A k \in 1..Len(Clips) : Clips[k].threshold \in SeqRange(th)
        /\ \A i, j \in 1..Len(Clips) :
               i < j =>
                   /\ Clips[i].chunk_start <= Clips[j].chunk_start
                   /\ Clips[i].chunk_start = Clips[j].chunk_start =>
                          /\ Clips[i].threshold <= Clips[j].threshold
                          /\ Clips[i].threshold = Clips[j].threshold =>
                                 Clips[i].peak < Clips[j].peak

\* Extra thresholds given out of order and repeated; clips of two chunks, of
\* two thresholds in one chunk and of two peaks for one threshold.
C9_Witness ==
    /\ cfg.extra_thresholds = <<2, 1, 2>>
    /\ \E i, j \in 1..Len(Clips) : Clips[i].chunk_start < Clips[j].chunk_start
    /\ \E i, j \in 1..Len(Clips) :
           /\ Clips[i].chunk_start = Clips[j].chunk_start
           /\ Clips[i].threshold < Clips[j].threshold
    /\ \E i, j \in 1..Len(Clips) :
           /\ Clips[i].chunk_start = Clips[j].chunk_start
           /\ Clips[i].threshold = Clips[j].threshold
           /\ Clips[i].peak < Clips[j].peak

\* The clips emitted for threshold t, in order.
ClipsFor(events, t) ==
    LET ForT(e) == IsClip(e) /\ e.threshold = t
    IN  SelectSeq(events, ForT)

\* C10: threshold independence. When a session has ended, the clips emitted
\* for each configured threshold are those of the session on the same
\* samples with that threshold configured alone.
C10_ThresholdIndependence ==
    SessionEnded =>
        \A t \in SeqRange(get_thresholds(cfg)) :
            ClipsFor(log, t) =
                ClipsFor(SingleCallSession(
                             [cfg EXCEPT !.threshold = t,
                                         !.extra_thresholds = None],
                             written).events, t)

\* A session in which two thresholds gave different clips.
C10_Witness ==
    /\ SessionEnded
    /\ \E t, u \in SeqRange(get_thresholds(cfg)) :
           /\ t < u
           /\ Len(ClipsFor(log, u)) >= 1
           /\ Len(ClipsFor(log, t)) > Len(ClipsFor(log, u))

\* The peak position p, in samples at the classifier's rate, in samples at
\* the input rate.
ToInputRate(p) ==
    RoundHalfEven(p * cfg.input_sample_rate, classifier_sample_rate(cfg))

\* C11: clip arithmetic. Every clip starts at the start of its chunk plus
\* the peak's window index times the hop length, converted to the input
\* rate, plus the clip padding offset, and has the clip length. A single
\* spike at window index 3 of 6, with a hop length of 5, equal rates, one
\* threshold and the chunk at 0, gives exactly one clip, at 3 * 5 plus the
\* offset.
C11_ClipArithmetic ==
    /\ \A k \in 1..Len(Clips) :
           /\ Clips[k].start_index =
                  Clips[k].chunk_start
                  + ToInputRate(Clips[k].peak * hop_size(cfg))
                  + clip_start_offset(cfg)
           /\ Clips[k].length = clip_length(cfg)
    /\ (/\ scores = <<0, 0, 0, 3, 0, 0>>
        /\ input_chunk_start_index = input_chunk_size(cfg)
        /\ hop_size(cfg) = 5
        /\ cfg.input_sample_rate = classifier_sample_rate(cfg)
        /\ Len(get_thresholds(cfg)) = 1) =>
           /\ Len(Clips) = 1
           /\ Clips[1].start_index = 3 * 5 + clip_start_offset(cfg)

\* The single spike at window index 3 of the first chunk, with a minimum
\* separation of 0, and its clip at 3 * 5 - 5.
C11_Witness ==
    /\ scores = <<0, 0, 0, 3, 0, 0>>
    /\ input_chunk_start_index = input_chunk_size(cfg)
    /\ cfg.min_separation = Rat(0, 1)
    /\ Len(Clips) = 1
    /\ Clips[1].start_index = 10

\* The start of the chunk the scores are those of.
ScoredChunkStart ==
    IF input_chunk_start_index > input_chunk_size(cfg)
    THEN input_chunk_size(cfg) ELSE 0

\* The process_clip calls made for peak p of the chunk scored, for
\* threshold t.
ClipsOfPeak(p, t) ==
    LET OfPeak(e) == /\ IsClip(e)
                     /\ e.chunk_end = input_chunk_start_index
                     /\ e.peak = p
                     /\ e.threshold = t
    IN  SelectSeq(log, OfPeak)

chunk_scores(c, samples) ==
    LET resampled == IF classifier_sample_rate(c) # c.input_sample_rate
                     THEN resample(samples, c.input_sample_rate,
                                   classifier_sample_rate(c))
                     ELSE samples
    IN  score_dataset_examples(
            get_analysis_records(resampled, classifier_waveform_length(c),
                                 hop_size(c)).value)

RECURSIVE PeaksOfThresholds(_, _, _)
\* The <<threshold, peak>> pairs of a score sequence, by threshold, then by
\* peak.
PeaksOfThresholds(c, x, thresholds) ==
    IF thresholds = <<>> THEN <<>>
    ELSE LET peaks == Detector_find_peaks(c, x, Head(thresholds))
         IN  [k \in 1..Len(peaks) |-> <<Head(thresholds), peaks[k]>>]
             \o PeaksOfThresholds(c, x, Tail(thresholds))

\* The <<threshold, peak>> pairs of the clips and rejections recorded for
\* the chunk that starts at start, in order.
RecordedPeaks(start) ==
    LET OfChunk(e) == ~IsCompleteProcessing(e) /\ e.chunk_start = start
        es == SelectSeq(log, OfChunk)
    IN  [k \in 1..Len(es) |-> <<es[k].threshold, es[k].peak>>]

\* C13: a boundary rejection does not raise and does not stop processing.
\* With rejections recorded, the call that made them raised nothing; every
\* peak of every threshold of every chunk has its clip or its rejection, in
\* order; every chunk read has been processed, and the buffer and the chunk
\* start index are what the samples written make them; and no clip of a
\* later chunk has the start index and threshold of an earlier rejection.
C13_RejectionNotFatal ==
    (\E k \in 1..Len(log) : IsWarning(log[k])) =>
        /\ last_call.raised = "none"
        /\ \A k \in 1..Len(chunks) :
               RecordedPeaks(chunks[k].start) =
                   PeaksOfThresholds(cfg, chunk_scores(cfg, chunks[k].samples),
                                     get_thresholds(cfg))
        /\ ChunkSamples(chunks) \o input_buffer = written
        /\ input_chunk_start_index = Len(ChunkSamples(chunks))
        /\ Len(input_buffer) < input_chunk_size(cfg)
        /\ \A i, j \in 1..Len(log) :
               (/\ IsWarning(log[i]) /\ IsClip(log[j])
                /\ log[i].chunk_start < log[j].chunk_start
                /\ log[i].threshold = log[j].threshold) =>
                   log[i].start_index # log[j].start_index

\* A rejection followed by a clip of the same chunk and threshold, by a
\* clip of the same chunk for a higher threshold and by a clip of a later
\* chunk.
C13_Witness ==
    \E i, j, k, l \in 1..Len(log) :
        /\ i < j /\ j < k /\ k < l
        /\ IsWarning(log[i]) /\ IsClip(log[j]) /\ IsClip(log[k]) /\ IsClip(log[l])
        /\ log[j].chunk_start = log[i].chunk_start
        /\ log[j].threshold = log[i].threshold
        /\ log[k].chunk_start = log[i].chunk_start
        /\ log[k].threshold > log[i].threshold
        /\ log[l].chunk_start > log[i].chunk_start

\* C14: collaborator failure. In a call in which the Resampler or the
\* Scorer raises, the exception is that of the call, and it is the last
\* thing the call does: no process_clip call for the chunk or for a later
\* one, no complete_processing call. The chunk is not retried: at any time
\* every sample written has been read into one chunk at most, the chunks
\* read followed by the buffer being the samples written.
C14_CollaboratorFailure ==
    /\ [](ChunkSamples(chunks) \o input_buffer = written)
    /\ [][\A k \in (Len(log) + 1)..Len(log') :
              IsRaised(log'[k]) =>
                  /\ last_call'.raised \in CollaboratorFailures
                  /\ k = Len(log')
                  /\ input_chunk_start_index' = log'[k].chunk_start
                  /\ \A j \in 1..(k - 1) :
                         IsClip(log'[j]) =>
                             log'[j].chunk_end <= log'[k].chunk_start]_vars

\* A clip followed by the exception a collaborator raised for the next
\* chunk, and a complete_detection call ended by the Resampler raising,
\* without a complete_processing call.
C14_Witness ==
    /\ \E k \in 2..Len(log) :
           /\ IsRaised(log[k]) /\ IsClip(log[k - 1])
           /\ log[k - 1].chunk_end = log[k].chunk_start
    /\ last_call = Call("complete_detection", "ResamplerError")
    /\ NumCompleteProcessing = 0

\* The listener calls and rejections of a detector run alone: the samples
\* in one detect call if detect was called at all, then complete_detection
\* if it was called.
LogAlone(c, samples, detect_called, complete_called) ==
    IF ~detect_called THEN <<>>
    ELSE LET d == process_input_chunks(c, buffer_write(<<>>, samples), 0, FALSE)
             e == process_input_chunks(c, d.buffer, d.chunk_start, TRUE)
         IN  IF ~complete_called THEN d.events
             ELSE d.events \o e.events
                  \o <<CompleteProcessingEvent(e.chunk_start)>>

\* C15: instance isolation. With the calls on two detectors interleaved in
\* any order, each has made the listener calls it makes when run alone on
\* the samples passed to it; a call on one leaves the attributes and the
\* record of the other as they were.
C15_InstanceIsolation ==
    /\ [](/\ log = LogAlone(cfg, written, buffer_created, n_complete > 0)
          /\ peer.log = LogAlone(peer.cfg, peer.written, peer.buffer_created,
                                 peer.n_complete > 0))
    /\ [][(peer' # peer => own' = own) /\ (own' # own => peer' = peer)]_vars

\* Both detectors have ended their sessions, each with clips the other does
\* not have, after detect calls on the one between detect calls on the
\* other that left samples in its buffer.
C15_Witness ==
    /\ n_complete = 1 /\ peer.n_complete = 1
    /\ fragmented
    /\ written # peer.written
    /\ Len(Clips) >= 1
    /\ Len(SelectSeq(peer.log, IsClip)) >= 1
    /\ Clips # SelectSeq(peer.log, IsClip)

\* The window indices accepted as peaks of the chunk scored for threshold
\* t: those with a clip or a rejection.
AcceptedPeaks(t) ==
    {log[k].peak : k \in {j \in 1..Len(log) :
                              /\ IsClip(log[j]) \/ IsWarning(log[j])
                              /\ log[j].chunk_end = input_chunk_start_index
                              /\ log[j].threshold = t}}

\* C16: threshold monotonicity. For configured thresholds t1 < t2 and one
\* score sequence, every window index accepted as a peak for t2 is a local
\* maximum of the scores whose score is at least t1: one of the candidates
\* for t1.
C16_ThresholdMonotonicity ==
    \A t1, t2 \in SeqRange(get_thresholds(cfg)) :
        t1 < t2 =>
            \A p \in AcceptedPeaks(t2) :
                /\ 1 <= p /\ p <= Len(scores) - 2
                /\ scores[p + 1] >= t1
                /\ scores[p + 1] >= scores[p]
                /\ scores[p + 1] >= scores[p + 2]

\* Scores with a peak of 2 and a peak of 3: both accepted for threshold 2,
\* the second alone for threshold 3.
C16_Witness ==
    /\ scores = <<0, 2, 0, 3, 0, 0>>
    /\ get_thresholds(cfg) = <<2, 3>>
    /\ AcceptedPeaks(2) = {1, 3}
    /\ AcceptedPeaks(3) = {3}

C18_Chunking ==
    /\ [](/\ Len(ChunkSamples(chunks)) <= Len(written)
          /\ ChunkSamples(chunks)
                 = SubSeq(written, 1, Len(ChunkSamples(chunks)))
          /\ SessionEnded => ChunkSamples(chunks) = written)
    /\ [][/\ n_complete' = n_complete =>
              \A k \in (Len(chunks) + 1)..Len(chunks') :
                  Len(chunks'[k].samples) = input_chunk_size(cfg)
          /\ n_complete' # n_complete =>
              /\ Len(chunks') <= Len(chunks) + 1
              /\ \A k \in (Len(chunks) + 1)..Len(chunks') :
                     /\ Len(chunks'[k].samples) > 0
                     /\ Len(chunks'[k].samples) < input_chunk_size(cfg)]_vars

\* A session that has ended with two whole chunks and a shorter last one,
\* after detect calls that left samples in the buffer.
C18_Witness ==
    /\ SessionEnded /\ fragmented
    /\ Len(chunks) = 3
    /\ Len(chunks[2].samples) = input_chunk_size(cfg)
    /\ Len(chunks[3].samples) < input_chunk_size(cfg)

RECURSIVE EventsOfChunks(_, _)
\* The clips and rejections of the chunks cs, in order.
EventsOfChunks(c, cs) ==
    IF cs = <<>> THEN <<>>
    ELSE threshold_loop(c, Head(cs).start,
                        chunk_scores(c, Head(cs).samples),
                        Len(Head(cs).samples), get_thresholds(c))
         \o EventsOfChunks(c, Tail(cs))

\* C19: backpressure. When a detect call returns normally, fewer samples
\* than a chunk are left in the buffer, and every whole chunk that the
\* samples buffered before the call and those written by it make up has
\* been processed in the call, its clips emitted. After complete_detection
\* has returned the buffer is empty. (A step that leaves n_complete as it
\* is is a detect call.)
C19_Backpressure ==
    /\ [](last_call = Call("complete_detection", "none") => input_buffer = <<>>)
    /\ [][(n_complete' = n_complete /\ last_call'.raised = "none") =>
              /\ Len(input_buffer') < input_chunk_size(cfg)
              /\ Len(chunks') - Len(chunks)
                     = (Len(input_buffer) + Len(written') - Len(written))
                       \div input_chunk_size(cfg)
              /\ SubSeq(log', Len(log) + 1, Len(log'))
                     = EventsOfChunks(
                           cfg, SubSeq(chunks', Len(chunks) + 1, Len(chunks')))
          ]_vars

\* A detect call has returned normally with a chunk processed, a clip
\* emitted and samples left in the buffer, after a call in which a
\* collaborator raised.
C19_Witness ==
    /\ last_call = Call("detect", "none")
    /\ Len(chunks) >= 2
    /\ Len(Clips) >= 1
    /\ input_buffer # <<>>
    /\ \E k \in 1..Len(log) : IsRaised(log[k])

\* C20: window count. For n samples, a record length R and a hop length H
\* with 0 < H <= R, _get_analysis_records gives no window if n < R and
\* (n - (R - H)) \div H windows otherwise: one window if n = R, and as many
\* windows of R samples, H apart, as lie within the n samples.
C20_WindowCount ==
    LET n == Len(call.samples)
        R == call.record_size
        H == call.hop_size
    IN  (call.returned /\ 0 < H /\ H <= R) =>
            /\ call.raised = "none"
            /\ Len(call.records) = IF n < R THEN 0 ELSE (n - (R - H)) \div H
            /\ n = R => Len(call.records) = 1
            /\ Len(call.records)
                   = Cardinality({k \in 1..n : (k - 1) * H + R <= n})
            /\ \A k \in 1..Len(call.records) :
                   call.records[k] = SubSeq(call.samples, (k - 1) * H + 1,
                                            (k - 1) * H + R)

\* 12 samples cut into records of 4 hopped by 3: three windows, the last
\* from sample 7, two samples left over.
C20_Witness ==
    /\ call.returned
    /\ Len(call.samples) = 12 /\ call.record_size = 4 /\ call.hop_size = 3
    /\ Len(call.records) = 3
    /\ call.records[3] = <<7, 8, 9, 10>>

\* min_separation in hops, as _find_peaks passes it to find_peaks.
MinSeparationHops ==
    Rat(Num(cfg.min_separation) * classifier_sample_rate(cfg),
        Den(cfg.min_separation) * hop_size(cfg))

\* Index p of the scores x is a local maximum at or above t.
IsPeakCandidate(x, p, t) ==
    /\ 1 <= p /\ p <= Len(x) - 2
    /\ x[p + 1] >= t
    /\ x[p + 1] >= x[p]
    /\ x[p + 1] >= x[p + 2]

\* C21: PeakDetector output. The indices returned are in ascending order;
\* each has a score at or above the threshold and is a local maximum;
\* consecutive ones are at least the minimum separation apart. A local
\* maximum at or above the threshold that is not returned is the later
\* index of a tie with its neighbour, or is closer than the separation to
\* an index returned that has a higher score, or the same score and an
\* earlier index. Empty and all-below-threshold scores give an empty result.
C21_PeakDetectorOutput ==
    call.returned =>
        LET x == call.scores
            t == call.threshold
            peaks == SeqRange(call.peaks)
        IN  /\ \A k \in 1..(Len(call.peaks) - 1) :
                   call.peaks[k] < call.peaks[k + 1]
            /\ \A p \in peaks : IsPeakCandidate(x, p, t)
            /\ cfg.min_separation # None =>
                   \A k \in 1..(Len(call.peaks) - 1) :
                       ~RatLess(Rat(call.peaks[k + 1] - call.peaks[k], 1),
                                MinSeparationHops)
            /\ \A p \in 0..(Len(x) - 1) :
                   (IsPeakCandidate(x, p, t) /\ p \notin peaks) =>
                       \/ IsPeakCandidate(x, p - 1, t) /\ x[p] = x[p + 1]
                       \/ /\ cfg.min_separation # None
                          /\ \E q \in peaks :
                                 /\ RatLess(Rat(Abs(q - p), 1), MinSeparationHops)
                                 /\ \/ x[q + 1] > x[p + 1]
                                    \/ x[q + 1] = x[p + 1] /\ q < p
            /\ (\A k \in 1..Len(x) : x[k] < t) => call.peaks = <<>>

\* Local maxima of 1, 2 and 3 two hops apart with a minimum separation of
\* three: the one of 2 gives way to the one of 3, the one of 1 is kept.
C21_Witness ==
    /\ call.returned
    /\ call.scores = <<0, 1, 0, 2, 1, 3, 0>>
    /\ call.threshold = 1
    /\ cfg.min_separation = Rat(3, 2)
    /\ call.peaks = <<1, 5>>

\* C22: InsufficientDataError is never surfaced. In every sequence of
\* detect and complete_detection calls, every read(n) the detector makes
\* finds at least n samples in the buffer: no call ends with an
\* InsufficientDataError, and every chunk a call reads has the number of
\* samples asked for, the chunk length in the loop and all that is left
\* in the read of the remainder.
C22_NoInsufficientData ==
    /\ [](last_call.raised # "InsufficientDataError")
    /\ [][\A k \in (Len(chunks) + 1)..Len(chunks') :
              \/ Len(chunks'[k].samples) = input_chunk_size(cfg)
              \/ /\ k = Len(chunks')
                 /\ n_complete' # n_complete
                 /\ Len(chunks'[k].samples)
                        = Len(input_buffer)
                          - (k - Len(chunks) - 1) * input_chunk_size(cfg)]_vars

\* Calls in any order: three chunks or more read, a remainder among them,
\* and a detect call after complete_detection that left fewer samples than
\* a chunk in the buffer, unread.
C22_Witness ==
    /\ late_detect
    /\ last_call = Call("detect", "none")
    /\ Len(chunks) >= 3
    /\ \E k \in 1..Len(chunks) :
           Len(chunks[k].samples) < input_chunk_size(cfg)
    /\ Len(input_buffer) > 0
    /\ Len(input_buffer) < input_chunk_size(cfg)

\* C23: SampleBuffer is a FIFO. After any writes and reads, what the reads
\* returned, in order, followed by what the buffer holds is what was
\* written, in order, so that len() is the samples written less those read.
\* A read(n) with n <= len() returns the n oldest samples not yet read, in
\* the order written, and removes them; a read(n) with n > len() fails with
\* an InsufficientDataError.
C23_BufferFifo ==
    /\ [](/\ ChunkSamples(chunks) \o input_buffer = written
          /\ Len(input_buffer) = Len(written) - input_chunk_start_index)
    /\ [][last_call'.name = "read" =>
              IF call'.n <= Len(input_buffer)
              THEN /\ last_call'.raised = "none"
                   /\ chunks' = Append(chunks,
                          Chunk(input_chunk_start_index,
                                SubSeq(written, input_chunk_start_index + 1,
                                       input_chunk_start_index + call'.n)))
                   /\ Len(input_buffer') = Len(input_buffer) - call'.n
                   /\ input_buffer' = SubSeq(written,
                          input_chunk_start_index + call'.n + 1, Len(written))
              ELSE /\ last_call'.raised = "InsufficientDataError"
                   /\ chunks' = chunks
                   /\ input_buffer' = input_buffer]_vars

\* A read of two samples that returned a 0 and a 1, in that order, and
\* left samples in the buffer, after an earlier read and with five samples
\* written in all.
C23_Witness ==
    /\ last_call = Call("read", "none")
    /\ call.n = 2
    /\ Len(chunks) >= 2
    /\ chunks[Len(chunks)].samples = <<0, 1>>
    /\ Len(input_buffer) >= 1
    /\ Len(written) = MaxBufferSamples

\* The recording_starting and recording_stopped notifications, in order.
StartStopNotifications ==
    LET IsStartStop(m) == m \in {"recording_starting", "recording_stopped"}
    IN  SelectSeq(recorder.notifications, IsStartStop)

\* C24: the notifications of an AudioRecorder are coherent under every
\* interleaving of start, stop, the callback of the stream and the calls of
\* the schedule listener. The last notification of the two before a
\* samples_arrived notification is a recording_starting one, and there is
\* one; recording_starting and recording_stopped notifications alternate,
\* the first being recording_starting.
C24_CoherentNotifications ==
    /\ \A k \in 1..Len(recorder.notifications) :
           recorder.notifications[k] = "samples_arrived" =>
               \E j \in 1..(k - 1) :
                   /\ recorder.notifications[j] = "recording_starting"
                   /\ \A i \in (j + 1)..(k - 1) :
                          recorder.notifications[i] # "recording_stopped"
    /\ \A k \in 1..Len(StartStopNotifications) :
           StartStopNotifications[k] =
               IF k % 2 = 1 THEN "recording_starting" ELSE "recording_stopped"

\* No call made so far has ended with an exception.
NoCallFailed ==
    /\ last_call.raised = "none"
    /\ \A k \in 1..Len(log) : ~IsRaised(log[k])

\* C25: position accounting. Between calls, when no call has failed, the
\* chunk start index plus the number of samples in the buffer is the number
\* of samples passed to detect so far.
C25_PositionAccounting ==
    NoCallFailed =>
        input_chunk_start_index + Len(input_buffer) = Len(written)

\* No call has failed; detect calls left samples in the buffer, and
\* complete_detection has processed a remainder after a whole chunk.
C25_Witness ==
    /\ NoCallFailed
    /\ last_call = Call("complete_detection", "none")
    /\ fragmented
    /\ Len(chunks) >= 2
    /\ Len(chunks[Len(chunks)].samples) < input_chunk_size(cfg)
    /\ input_chunk_start_index = Len(written)

RECURSIVE LostSamples(_)
\* The number of samples of the chunks for which a collaborator raised,
\* among the entries es.
LostSamples(es) ==
    IF es = <<>> THEN 0
    ELSE (IF IsRaised(Head(es))
          THEN Head(es).chunk_end - Head(es).chunk_start ELSE 0)
         + LostSamples(Tail(es))

C27_WindowsInsideChunk ==
    call.returned =>
        \A k \in 0..(Len(call.records) - 1) :
            /\ k * call.hop_size + call.record_size <= Len(call.samples)
            /\ \A j \in 1..call.record_size :
                   /\ call.records[k + 1][j] # Beyond
                   /\ call.records[k + 1][j] = k * call.hop_size + j

\* 11 samples cut into records of 4 hopped by 2: four windows, the last
\* one ending a sample before the end; a fifth would end a sample past it.
C27_Witness ==
    /\ call.returned
    /\ Len(call.samples) = 11 /\ call.record_size = 4 /\ call.hop_size = 2
    /\ Len(call.records) = 4
    /\ call.records[4] = <<7, 8, 9, 10>>
    /\ 4 * call.hop_size + call.record_size = Len(call.samples) + 1

\* The absolute indices at which a chunk processed so far starts or ends.
ChunkBoundaries ==
    {chunks[k].start : k \in 1..Len(chunks)}
    \cup {chunks[k].start + Len(chunks[k].samples) : k \in 1..Len(chunks)}

\* Index i lies strictly between B - L and B - P for a chunk boundary B.
InDeadZone(i) ==
    \E B \in ChunkBoundaries :
        /\ B - clip_length(cfg) < i
        /\ i < B + clip_start_offset(cfg)

\* C28: boundary dead zone. With an initial padding of P samples and a
\* clip length of L samples, P < L, no clip of any threshold starts
\* strictly between B - L and B - P for any index B at which a chunk ends,
\* the last chunk included; a peak whose clip would start there is
\* rejected, and no clip with that start index is emitted later.
C28_BoundaryDeadZone ==
    -clip_start_offset(cfg) < clip_length(cfg) =>
        /\ \A k \in 1..Len(Clips) : ~InDeadZone(Clips[k].start_index)
        /\ \A k \in 1..Len(log) :
               (/\ IsClip(log[k]) \/ IsWarning(log[k])
                /\ InDeadZone(log[k].start_index)) =>
                   /\ IsWarning(log[k])
                   /\ \A j \in 1..Len(log) :
                          IsClip(log[j]) =>
                              log[j].start_index # log[k].start_index

\* A peak rejected because its clip would start in the dead zone before the
\* end of its chunk, after a clip of an earlier chunk that ends with its
\* chunk: it starts at the lower edge of the zone of that chunk's end.
C28_Witness ==
    /\ -clip_start_offset(cfg) < clip_length(cfg)
    /\ \E i, j \in 1..Len(log) :
           /\ IsWarning(log[i])
           /\ log[i].chunk_end - clip_length(cfg) < log[i].start_index
           /\ log[i].start_index < log[i].chunk_end + clip_start_offset(cfg)
           /\ IsClip(log[j])
           /\ log[j].chunk_end <= log[i].chunk_start
           /\ log[j].start_index = log[j].chunk_end - clip_length(cfg)

\* C29: per-threshold emission order. When the initial clip padding does
\* not exceed the clip length, the start indices of the clips emitted for
\* one threshold never decrease over the session, within a chunk and from
\* one chunk to the next.
C29_EmissionOrderPerThreshold ==
    -clip_start_offset(cfg) <= clip_length(cfg) =>
        \A i, j \in 1..Len(Clips) :
            (i < j /\ Clips[i].threshold = Clips[j].threshold) =>
                Clips[i].start_index <= Clips[j].start_index

\* A session that has ended with three clips of one threshold, two of one
\* chunk and one of a later chunk.
C29_Witness ==
    /\ SessionEnded
    /\ -clip_start_offset(cfg) <= clip_length(cfg)
    /\ \E i, j, k \in 1..Len(Clips) :
           /\ i < j /\ j < k
           /\ Clips[i].threshold = Clips[j].threshold
           /\ Clips[j].threshold = Clips[k].threshold
           /\ Clips[i].chunk_start = Clips[j].chunk_start
           /\ Clips[j].chunk_start < Clips[k].chunk_start
           /\ Clips[i].start_index < Clips[j].start_index
           /\ Clips[j].start_index < Clips[k].start_index

\* C30: repeated completion. A second complete_detection call, made after
\* one detect call or more and a first complete_detection call with no
\* detect call since, finds the buffer empty, processes no chunk, emits no
\* clip and leaves the chunk start index as it is, and calls
\* listener.complete_processing() again: once for each complete_detection
\* call. (A step that changes n_complete is a complete_detection call.)
C30_RepeatedCompletion ==
    [][(/\ n_complete >= 1
        /\ n_complete' = n_complete + 1
        /\ buffer_created
        /\ ~late_detect) =>
           /\ input_buffer = <<>>
           /\ input_buffer' = <<>>
           /\ chunks' = chunks
           /\ input_chunk_start_index' = input_chunk_start_index
           /\ last_call' = Call("complete_detection", "none")
           /\ Len(log') = Len(log) + 1
           /\ SubSeq(log', 1, Len(log)) = log
           /\ IsCompleteProcessing(log'[Len(log')])
           /\ Cardinality({k \in 1..Len(log') : IsCompleteProcessing(log'[k])})
                  = n_complete']_vars

\* Two complete_detection calls after detect calls that processed a chunk
\* and left a remainder, with a clip emitted: two complete_processing
\* calls, the last two listener calls.
C30_Witness ==
    /\ n_complete = 2
    /\ ~late_detect
    /\ Len(chunks) >= 2
    /\ Len(Clips) >= 1
    /\ NumCompleteProcessing = 2
    /\ IsCompleteProcessing(log[Len(log)])
    /\ IsCompleteProcessing(log[Len(log) - 1])

====
